---- MODULE Spec2Model ----
(***************************************************************************)
(* Model of the sales trend engine of src/app.py: SalesRow, the helper     *)
(* functions and analyze_sales_trends.                                      *)
(*                                                                         *)
(* Representation.                                                         *)
(*  - A string that the code splits (ASIN, StoreCode, the group key) is a   *)
(*    sequence of one-character strings.                                    *)
(*  - WeekStart is the text handed to strptime('%Y-%m-%d'): <<y, m, d>> for *)
(*    a text of that shape (the calendar may still reject it), <<>> for any *)
(*    other text.  A datetime is <<y, m, d>>.                               *)
(*  - A float is the exact rational <<numerator, denominator>> with a       *)
(*    positive denominator; a denominator of 0 stands for the               *)
(*    ZeroDivisionError the division would raise.  Revenue is a whole       *)
(*    number.  round(x, k) is a whole number of 10^-k units.                *)
(*  - None is <<>>, a value v that may be None is <<v>>.                    *)
(*  - A reason string is the number (1..7) of the rule that appended it.    *)
(*  - ProductTitle, Brand, COGS and FiscalWeek are display-only and left    *)
(*    out of a row.                                                         *)
(***************************************************************************)
EXTENDS Integers, Sequences, FiniteSets, TLC

VARIABLES
    rows,                 \* analyze_sales_trends' argument
    window_weeks,         \* THRESHOLDS['windowWeeks'] read at line 184
    pc,                   \* position in analyze_sales_trends
    grouped_data,         \* the dict of line 187, in insertion order: <<[key, data_list]>>
    gi,                   \* index in grouped_data of the group in the loop of line 194
    last_n_weeks,         \* locals of the loop body
    previous_year_weeks,
    metrics,              \* the metrics of lines 210-239
    alert_reasons,
    alert_severity,
    wow_change,
    yoy_same_week_change,
    same_week_prev_year,
    alerts,
    error,                \* the exception that left analyze_sales_trends, "" if none
    call,                 \* a call of detect_consecutive_weeks_down: arguments and result
    first_call            \* an earlier call of analyze_sales_trends: argument and outcome

vars == <<rows, window_weeks, pc, grouped_data, gi, last_n_weeks, previous_year_weeks,
          metrics, alert_reasons, alert_severity, wow_change, yoy_same_week_change,
          same_week_prev_year, alerts, error, call, first_call>>

-----------------------------------------------------------------------------
(* THRESHOLDS, lines 16-32 *)

minAvgUnits4W == 30
minWeeksDown == 3
minYoYDropPct == <<-15, 100>>
minNormSlopeUnits == <<-5, 100>>
minReturnRatio == <<8, 100>>
minNormSlopeReturns == <<5, 100>>
minWoWDropPct == <<-12, 100>>
minYoYSameWeekDropPct == <<-15, 100>>
windowWeeks == 4

-----------------------------------------------------------------------------
(* Sequences and rationals *)

RECURSIVE SumSeq(_)
SumSeq(s) == IF s = <<>> THEN 0 ELSE Head(s) + SumSeq(Tail(s))

MaxOf(a, b) == IF a >= b THEN a ELSE b

Zero == <<0, 1>>

\* a / b of two whole numbers, b # 0 checked by the caller as the code does
Ratio(a, b) == IF b < 0 THEN <<-a, -b>> ELSE <<a, b>>

\* p / q of two rationals
RatDiv(p, q) == Ratio(p[1] * q[2], p[2] * q[1])

RatLess(p, q) == p[1] * q[2] < q[1] * p[2]

\* round(p, k) with scale = 10^k: the nearest multiple of 1/scale, halves to even.
\* (A half that is no binary fraction, such as 0.1125, is not a half as a float and
\* rounds by its float error; the inputs below produce none.)
Round(p, scale) ==
    LET n == p[1] * scale
        q == n \div p[2]
        r == n % p[2]
    IN  IF 2 * r < p[2] THEN q
        ELSE IF 2 * r > p[2] THEN q + 1
        ELSE IF q % 2 = 0 THEN q ELSE q + 1

-----------------------------------------------------------------------------
(* SalesRow: get_week_date, get_year, get_week_number *)

IsLeap(y) == (y % 4 = 0) /\ ((y % 100 # 0) \/ (y % 400 = 0))

DaysInMonth(y, mo) ==
    IF mo = 2 THEN (IF IsLeap(y) THEN 29 ELSE 28)
    ELSE IF mo \in {4, 6, 9, 11} THEN 30 ELSE 31

DaysBeforeMonth(y, mo) ==
    <<0, 31, 59, 90, 120, 151, 181, 212, 243, 273, 304, 334>>[mo]
    + (IF mo > 2 /\ IsLeap(y) THEN 1 ELSE 0)

DaysBeforeYear(y) ==
    (y - 1) * 365 + ((y - 1) \div 4) - ((y - 1) \div 100) + ((y - 1) \div 400)

\* datetime.toordinal: 0001-01-01 is day 1, a Monday
Ordinal(dt) == DaysBeforeYear(dt[1]) + DaysBeforeMonth(dt[1], dt[2]) + dt[3]

\* strptime(WeekStart, '%Y-%m-%d') succeeds
Parses(text) ==
    /\ Len(text) = 3
    /\ text[1] \in 1..9999
    /\ text[2] \in 1..12
    /\ text[3] \in 1..DaysInMonth(text[1], text[2])

get_week_date(row) == IF Parses(row.WeekStart) THEN row.WeekStart ELSE <<2000, 1, 1>>

get_year(row) == get_week_date(row)[1]

\* the ordinal of the Monday of ISO week 1 of year y
IsoWeek1Monday(y) ==
    LET firstday == Ordinal(<<y, 1, 1>>)
        firstweekday == (firstday + 6) % 7
        monday == firstday - firstweekday
    IN  IF firstweekday > 3 THEN monday + 7 ELSE monday

\* datetime.isocalendar(): <<ISO year, ISO week>>
IsoCalendar(dt) ==
    LET y == dt[1]
        today == Ordinal(dt)
        week == (today - IsoWeek1Monday(y)) \div 7
    IN  IF week < 0
        THEN <<y - 1, ((today - IsoWeek1Monday(y - 1)) \div 7) + 1>>
        ELSE IF week >= 52 /\ today >= IsoWeek1Monday(y + 1)
        THEN <<y + 1, 1>>
        ELSE <<y, week + 1>>

get_week_number(row) == IsoCalendar(get_week_date(row))[2]

-----------------------------------------------------------------------------
(* Helper functions, lines 66-157 *)

\* sorted(rows, key=get_week_date): stable, as list.sort and sorted are
RECURSIVE InsertByDate(_, _)
InsertByDate(sorted, row) ==
    IF sorted = <<>> THEN <<row>>
    ELSE LET last == sorted[Len(sorted)]
         IN  IF Ordinal(get_week_date(last)) <= Ordinal(get_week_date(row))
             THEN Append(sorted, row)
             ELSE Append(InsertByDate(SubSeq(sorted, 1, Len(sorted) - 1), row), last)

\* a sort that is forgotten
Unsorted(s) == s

RECURSIVE SortSoFar(_, _)
SortSoFar(s, k) == IF k = 0 THEN <<>> ELSE InsertByDate(SortSoFar(s, k - 1), s[k])

SortedByDate(s) == SortSoFar(s, Len(s))

Column(weeks, field) == [i \in 1..Len(weeks) |-> weeks[i][field]]

\* the sums of the loop of lines 75-81 over x = 0..n-1
calculate_slope(values) ==
    LET n == Len(values)
        sx == SumSeq([i \in 1..n |-> i - 1])
        sy == SumSeq(values)
        sxy == SumSeq([i \in 1..n |-> (i - 1) * values[i]])
        sxx == SumSeq([i \in 1..n |-> (i - 1) * (i - 1)])
        denominator == n * sxx - sx * sx
    IN  IF n < 2 THEN Zero
        ELSE IF denominator = 0 THEN Zero
        ELSE Ratio(n * sxy - sx * sy, denominator)

calculate_yoy_change(current_weeks, prev_weeks, metric) ==
    LET current_total == SumSeq(Column(current_weeks, metric))
        previous_total == SumSeq(Column(prev_weeks, metric))
    IN  IF previous_total = 0 THEN Zero
        ELSE <<current_total - previous_total, previous_total>>

get_last_n_weeks(rs, n) ==
    LET sorted_rows == SortedByDate(rs)
    IN  IF Len(sorted_rows) >= n
        THEN (IF n = 0 THEN sorted_rows
              ELSE SubSeq(sorted_rows, Len(sorted_rows) - n + 1, Len(sorted_rows)))
        ELSE sorted_rows

get_same_weeks_previous_year(rs, current_weeks) ==
    IF current_weeks = <<>> THEN <<>>
    ELSE LET current_week_numbers ==
                 {get_week_number(current_weeks[i]) : i \in 1..Len(current_weeks)}
             target_year == get_year(current_weeks[1]) - 1
         IN  SortedByDate(SelectSeq(rs, LAMBDA row :
                 get_year(row) = target_year
                 /\ get_week_number(row) \in current_week_numbers))

\* the scan without the reset of line 140
RECURSIVE ScanDownNoReset(_, _, _, _)
ScanDownNoReset(units, min_weeks, i, consecutive_down) ==
    IF i > Len(units) THEN FALSE
    ELSE IF units[i] < units[i - 1]
         THEN (IF consecutive_down + 1 >= min_weeks - 1 THEN TRUE
               ELSE ScanDownNoReset(units, min_weeks, i + 1, consecutive_down + 1))
         ELSE ScanDownNoReset(units, min_weeks, i + 1, consecutive_down)

\* the loop of lines 134-140 from index i (1-based: units[i] against units[i-1])
RECURSIVE ScanDown(_, _, _, _)
ScanDown(units, min_weeks, i, consecutive_down) ==
    IF i > Len(units) THEN FALSE
    ELSE IF units[i] < units[i - 1]
         THEN (IF consecutive_down + 1 >= min_weeks - 1 THEN TRUE
               ELSE ScanDown(units, min_weeks, i + 1, consecutive_down + 1))
         ELSE ScanDown(units, min_weeks, i + 1, 0)

detect_consecutive_weeks_down(weeks, min_weeks) ==
    IF Len(weeks) < min_weeks THEN FALSE
    ELSE ScanDown(Column(weeks, "Units"), min_weeks, 2, 0)

\* the ratio without the guard of lines 147-148
calculate_return_rate_unguarded(weeks) ==
    <<SumSeq(Column(weeks, "Returns")), SumSeq(Column(weeks, "Units"))>>

calculate_return_rate(weeks) ==
    LET total_units == SumSeq(Column(weeks, "Units"))
        total_returns == SumSeq(Column(weeks, "Returns"))
    IN  IF total_units = 0 THEN Zero ELSE <<total_returns, total_units>>

\* None (<<>>) or <<the first row of the ISO week of current_week>>
find_same_week_previous_year(prev_weeks, current_week) ==
    LET target_week_num == get_week_number(current_week)
        hits == SelectSeq(prev_weeks, LAMBDA row : get_week_number(row) = target_week_num)
    IN  IF hits = <<>> THEN <<>> ELSE <<hits[1]>>

-----------------------------------------------------------------------------
(* analyze_sales_trends, lines 179-389 *)

GroupKey(row) == row.ASIN \o <<"|">> \o row.StoreCode

\* str.split(sep): the parts between the separators
RECURSIVE SplitFrom(_, _, _, _)
SplitFrom(s, sep, i, part) ==
    IF i > Len(s) THEN <<part>>
    ELSE IF s[i] = sep THEN <<part>> \o SplitFrom(s, sep, i + 1, <<>>)
    ELSE SplitFrom(s, sep, i + 1, Append(part, s[i]))

Split(s, sep) == SplitFrom(s, sep, 1, <<>>)

\* lines 187-190: the groups in the order their keys first appear
RECURSIVE GroupRows(_, _)
GroupRows(rs, k) ==
    IF k = 0 THEN <<>>
    ELSE LET sofar == GroupRows(rs, k - 1)
             key == GroupKey(rs[k])
             at == {i \in 1..Len(sofar) : sofar[i].key = key}
         IN  IF at = {}
             THEN Append(sofar, [key |-> key, data_list |-> <<rs[k]>>])
             ELSE LET i == CHOOSE j \in at : TRUE
                  IN  [sofar EXCEPT ![i].data_list = Append(@, rs[k])]

\* the floor of three rows alone, whatever the window
YoYDataAvailableFloorOnly(prev_weeks, n_window) == Len(prev_weeks) >= 3

\* line 232
YoYDataAvailable(prev_weeks, n_window) == Len(prev_weeks) >= MaxOf(3, n_window - 1)

\* lines 210-239
Metrics(weeks, prev_weeks, n_window) ==
    LET units_current == Column(weeks, "Units")
        returns_current == Column(weeks, "Returns")
        avg_units == <<SumSeq(units_current), Len(units_current)>>
        units_slope == calculate_slope(units_current)
        returns_slope == calculate_slope(returns_current)
        avg_returns == IF returns_current # <<>>
                       THEN <<SumSeq(returns_current), Len(returns_current)>>
                       ELSE <<1, 1>>
        yoy_data_available == YoYDataAvailable(prev_weeks, n_window)
    IN  [avg_units |-> avg_units,
         total_revenue |-> SumSeq(Column(weeks, "Revenue")),
         total_units |-> SumSeq(units_current),
         total_returns |-> SumSeq(returns_current),
         normalized_units_slope |->
             IF avg_units[1] > 0 THEN RatDiv(units_slope, avg_units) ELSE Zero,
         normalized_returns_slope |->
             IF avg_returns[1] > 0 THEN RatDiv(returns_slope, avg_returns) ELSE Zero,
         yoy_data_available |-> yoy_data_available,
         yoy_units_change |->
             IF yoy_data_available
             THEN calculate_yoy_change(weeks, prev_weeks, "Units") ELSE Zero,
         yoy_revenue_change |->
             IF yoy_data_available
             THEN calculate_yoy_change(weeks, prev_weeks, "Revenue") ELSE Zero,
         return_rate |-> calculate_return_rate(weeks)]

NoMetrics == [avg_units |-> Zero, total_revenue |-> 0, total_units |-> 0,
              total_returns |-> 0, normalized_units_slope |-> Zero,
              normalized_returns_slope |-> Zero, yoy_data_available |-> FALSE,
              yoy_units_change |-> Zero, yoy_revenue_change |-> Zero,
              return_rate |-> Zero]

\* avg_units >= THRESHOLDS['minAvgUnits4W']
EnoughVolume(mt) == mt.avg_units[1] >= minAvgUnits4W * mt.avg_units[2]

\* the conditions of the rules, lines 246-247, 257, 265, 274, 283-284
Rule1Fires(mt) == RatLess(mt.normalized_units_slope, minNormSlopeUnits) /\ EnoughVolume(mt)

Rule2Fires(mt) == mt.yoy_data_available /\ RatLess(mt.yoy_units_change, minYoYDropPct)

Rule3Fires(weeks) == detect_consecutive_weeks_down(weeks, minWeeksDown)

Rule4Fires(mt) == RatLess(minReturnRatio, mt.return_rate)

Rule5Fires(mt) ==
    RatLess(minNormSlopeReturns, mt.normalized_returns_slope) /\ mt.total_returns > 5

\* lines 297-299: None, or <<the change of the last week against the one before>>
WoWChange(weeks) ==
    LET last_week == weeks[Len(weeks)]
        prev_week == weeks[Len(weeks) - 1]
    IN  IF prev_week.Units > 0
        THEN << <<last_week.Units - prev_week.Units, prev_week.Units>> >>
        ELSE <<>>

\* lines 298-301
Rule6Fires(weeks, mt) ==
    /\ WoWChange(weeks) # <<>>
    /\ RatLess(WoWChange(weeks)[1], minWoWDropPct)
    /\ EnoughVolume(mt)

\* line 311: None, or <<the row of a year before>>
SameWeekPrevYear(weeks, prev_weeks) ==
    IF prev_weeks # <<>>
    THEN find_same_week_previous_year(prev_weeks, weeks[Len(weeks)])
    ELSE <<>>

\* lines 312-313: None, or <<the change of the last week against that row>>
YoYSameWeekChange(weeks, found) ==
    IF found # <<>> /\ found[1].Units > 0
    THEN << <<weeks[Len(weeks)].Units - found[1].Units, found[1].Units>> >>
    ELSE <<>>

\* lines 312-315
Rule7Fires(weeks, found, mt) ==
    /\ YoYSameWeekChange(weeks, found) # <<>>
    /\ RatLess(YoYSameWeekChange(weeks, found)[1], minYoYSameWeekDropPct)
    /\ EnoughVolume(mt)

Locals == <<last_n_weeks, previous_year_weeks, metrics, alert_reasons, alert_severity,
            wow_change, yoy_same_week_change, same_week_prev_year>>

Input == <<rows, window_weeks, call, first_call>>

Raise(exception) ==
    /\ pc' = "raised"
    /\ error' = exception

\* lines 186-192
Group ==
    /\ pc = "group"
    /\ grouped_data' = GroupRows(rows, Len(rows))
    /\ gi' = 1
    /\ alerts' = <<>>
    /\ pc' = "loop"
    /\ UNCHANGED <<Input, Locals, error>>

\* lines 194-243: one group enters the loop body, up to the first rule
NextGroup ==
    /\ pc = "loop"
    /\ gi <= Len(grouped_data)
    /\ LET key == grouped_data[gi].key
           data_list == SortedByDate(grouped_data[gi].data_list)
           weeks == get_last_n_weeks(data_list, window_weeks)
           prev_weeks == get_same_weeks_previous_year(data_list, weeks)
       IN  IF Len(Split(key, "|")) # 2
           THEN /\ Raise("ValueError")
                /\ UNCHANGED <<grouped_data, gi, Locals>>
           ELSE /\ grouped_data' = [grouped_data EXCEPT ![gi].data_list = data_list]
                /\ IF Len(weeks) < window_weeks
                   THEN /\ gi' = gi + 1
                        /\ UNCHANGED <<pc, error, Locals>>
                   ELSE /\ last_n_weeks' = weeks
                        /\ previous_year_weeks' = prev_weeks
                        /\ metrics' = Metrics(weeks, prev_weeks, window_weeks)
                        /\ alert_reasons' = <<>>
                        /\ alert_severity' = "INFO"
                        /\ pc' = "rule1"
                        /\ UNCHANGED <<gi, error, wow_change, yoy_same_week_change,
                                       same_week_prev_year>>
    /\ UNCHANGED <<Input, alerts>>

\* lines 245-254
Rule1 ==
    /\ pc = "rule1"
    /\ IF Rule1Fires(metrics)
       THEN /\ alert_reasons' = Append(alert_reasons, 1)
            /\ alert_severity' = "WARNING"
       ELSE UNCHANGED <<alert_reasons, alert_severity>>
    /\ pc' = "rule2"
    /\ UNCHANGED <<Input, grouped_data, gi, last_n_weeks, previous_year_weeks, metrics,
                   wow_change, yoy_same_week_change, same_week_prev_year, alerts, error>>

\* lines 256-262
Rule2 ==
    /\ pc = "rule2"
    /\ IF Rule2Fires(metrics)
       THEN /\ alert_reasons' = Append(alert_reasons, 2)
            /\ alert_severity' = "CRITICAL"
       ELSE UNCHANGED <<alert_reasons, alert_severity>>
    /\ pc' = "rule3"
    /\ UNCHANGED <<Input, grouped_data, gi, last_n_weeks, previous_year_weeks, metrics,
                   wow_change, yoy_same_week_change, same_week_prev_year, alerts, error>>

\* an assignment of 'WARNING' without the test for 'INFO'
EscalatedAlways(severity) == "WARNING"

\* "if alert_severity == 'INFO': alert_severity = 'WARNING'"
Escalated(severity) == IF severity = "INFO" THEN "WARNING" ELSE severity

\* lines 264-271
Rule3 ==
    /\ pc = "rule3"
    /\ IF Rule3Fires(last_n_weeks)
       THEN /\ alert_reasons' = Append(alert_reasons, 3)
            /\ alert_severity' = Escalated(alert_severity)
       ELSE UNCHANGED <<alert_reasons, alert_severity>>
    /\ pc' = "rule4"
    /\ UNCHANGED <<Input, grouped_data, gi, last_n_weeks, previous_year_weeks, metrics,
                   wow_change, yoy_same_week_change, same_week_prev_year, alerts, error>>

\* lines 273-280
Rule4 ==
    /\ pc = "rule4"
    /\ IF Rule4Fires(metrics)
       THEN /\ alert_reasons' = Append(alert_reasons, 4)
            /\ alert_severity' = Escalated(alert_severity)
       ELSE UNCHANGED <<alert_reasons, alert_severity>>
    /\ pc' = "rule5"
    /\ UNCHANGED <<Input, grouped_data, gi, last_n_weeks, previous_year_weeks, metrics,
                   wow_change, yoy_same_week_change, same_week_prev_year, alerts, error>>

\* lines 282-290
Rule5 ==
    /\ pc = "rule5"
    /\ IF Rule5Fires(metrics)
       THEN /\ alert_reasons' = Append(alert_reasons, 5)
            /\ alert_severity' = Escalated(alert_severity)
       ELSE UNCHANGED <<alert_reasons, alert_severity>>
    /\ pc' = "rule6"
    /\ UNCHANGED <<Input, grouped_data, gi, last_n_weeks, previous_year_weeks, metrics,
                   wow_change, yoy_same_week_change, same_week_prev_year, alerts, error>>

\* lines 292-307: last_n_weeks[-2] raises IndexError on a window of one week
Rule6 ==
    /\ pc = "rule6"
    /\ IF Len(last_n_weeks) < 2
       THEN /\ Raise("IndexError")
            /\ UNCHANGED <<alert_reasons, alert_severity, wow_change>>
       ELSE /\ wow_change' = WoWChange(last_n_weeks)
            /\ IF Rule6Fires(last_n_weeks, metrics)
               THEN /\ alert_reasons' = Append(alert_reasons, 6)
                    /\ alert_severity' = Escalated(alert_severity)
               ELSE UNCHANGED <<alert_reasons, alert_severity>>
            /\ pc' = "rule7"
            /\ error' = error
    /\ UNCHANGED <<Input, grouped_data, gi, last_n_weeks, previous_year_weeks, metrics,
                   yoy_same_week_change, same_week_prev_year, alerts>>

\* lines 309-322
Rule7 ==
    /\ pc = "rule7"
    /\ LET found == SameWeekPrevYear(last_n_weeks, previous_year_weeks)
       IN  /\ same_week_prev_year' = found
           /\ yoy_same_week_change' = YoYSameWeekChange(last_n_weeks, found)
           /\ IF Rule7Fires(last_n_weeks, found, metrics)
              THEN /\ alert_reasons' = Append(alert_reasons, 7)
                   /\ alert_severity' = Escalated(alert_severity)
              ELSE UNCHANGED <<alert_reasons, alert_severity>>
    /\ pc' = "emit"
    /\ UNCHANGED <<Input, grouped_data, gi, last_n_weeks, previous_year_weeks, metrics,
                   wow_change, alerts, error>>

RoundOrNone(x, scale) == IF x = <<>> THEN <<>> ELSE <<Round(x[1], scale)>>

\* lines 326-379
ProductInfo ==
    LET parts == Split(grouped_data[gi].key, "|")
    IN  [ASIN |-> parts[1],
         StoreCode |-> parts[2],
         Severity |-> alert_severity,
         AlertReasons |-> alert_reasons,
         Current_4W |->
             [AvgUnitsPerWeek |-> Round(metrics.avg_units, 100),
              TotalUnits |-> metrics.total_units,
              TotalRevenue |-> metrics.total_revenue,
              TotalReturns |-> metrics.total_returns,
              ReturnRate |-> Round(metrics.return_rate, 1000),
              WindowWeeks |-> Len(last_n_weeks),
              UnitsTrendPerWeekPct |-> Round(metrics.normalized_units_slope, 10000),
              ReturnsTrendPerWeekPct |-> Round(metrics.normalized_returns_slope, 10000)],
         YoY_Comparison |->
             [UnitsChange |-> Round(metrics.yoy_units_change, 1000),
              RevenueChange |-> Round(metrics.yoy_revenue_change, 1000),
              DataAvailable |-> metrics.yoy_data_available],
         Comparisons |->
             [WoWUnitsChange |-> RoundOrNone(wow_change, 1000),
              YoYSameWeekUnitsChange |-> RoundOrNone(yoy_same_week_change, 1000),
              YoYSameWeekDataAvailable |-> same_week_prev_year # <<>>],
         WeeklyDetail |->
             [i \in 1..Len(last_n_weeks) |->
                 [Date |-> last_n_weeks[i].WeekStart,
                  Units |-> last_n_weeks[i].Units,
                  Revenue |-> last_n_weeks[i].Revenue,
                  Returns |-> last_n_weeks[i].Returns]]]

\* lines 324-380, and back to the for statement of line 194
Emit ==
    /\ pc = "emit"
    /\ alerts' = IF alert_reasons # <<>> THEN Append(alerts, ProductInfo) ELSE alerts
    /\ gi' = gi + 1
    /\ pc' = "loop"
    /\ UNCHANGED <<Input, grouped_data, Locals, error>>

\* the ranks of 'CRITICAL' and 'WARNING' exchanged
SeverityRankSwapped(severity) ==
    IF severity = "CRITICAL" THEN 1
    ELSE IF severity = "WARNING" THEN 0
    ELSE IF severity = "INFO" THEN 2
    ELSE 3

\* line 383 and severity_order.get(x['Severity'], 3)
SeverityRank(severity) ==
    IF severity = "CRITICAL" THEN 0
    ELSE IF severity = "WARNING" THEN 1
    ELSE IF severity = "INFO" THEN 2
    ELSE 3

\* the sort key of lines 384-387, compared as Python compares tuples
KeyLessEq(a, b) ==
    \/ SeverityRank(a.Severity) < SeverityRank(b.Severity)
    \/ /\ SeverityRank(a.Severity) = SeverityRank(b.Severity)
       /\ a.YoY_Comparison.UnitsChange <= b.YoY_Comparison.UnitsChange

\* list.sort(key=...): stable
RECURSIVE InsertByKey(_, _)
InsertByKey(sorted, alert) ==
    IF sorted = <<>> THEN <<alert>>
    ELSE LET last == sorted[Len(sorted)]
         IN  IF KeyLessEq(last, alert)
             THEN Append(sorted, alert)
             ELSE Append(InsertByKey(SubSeq(sorted, 1, Len(sorted) - 1), alert), last)

RECURSIVE RankSoFar(_, _)
RankSoFar(s, k) == IF k = 0 THEN <<>> ELSE InsertByKey(RankSoFar(s, k - 1), s[k])

\* lines 382-389
Rank ==
    /\ pc = "loop"
    /\ gi > Len(grouped_data)
    /\ alerts' = RankSoFar(alerts, Len(alerts))
    /\ pc' = "returned"
    /\ UNCHANGED <<Input, grouped_data, gi, Locals, error>>

Analyze ==
    \/ Group
    \/ NextGroup
    \/ Rule1
    \/ Rule2
    \/ Rule3
    \/ Rule4
    \/ Rule5
    \/ Rule6
    \/ Rule7
    \/ Emit
    \/ Rank

-----------------------------------------------------------------------------
(* Inputs *)

MaxWindow == 5

UnitValues == {0, 40, 100}
ReturnPatterns == {"none", "flat", "rising"}
StartDate == <<2024, 9, 30>>

\* the date with the given ordinal
DateOf(ord) ==
    LET y == CHOOSE yy \in (ord \div 366)..((ord \div 365) + 1) :
                 DaysBeforeYear(yy) < ord /\ ord <= DaysBeforeYear(yy + 1)
        rest == ord - DaysBeforeYear(y)
        mo == CHOOSE k \in 1..12 :
                 DaysBeforeMonth(y, k) < rest
                 /\ rest <= DaysBeforeMonth(y, k) + DaysInMonth(y, k)
    IN  <<y, mo, rest - DaysBeforeMonth(y, mo)>>

\* the date `weeks` weeks after (before, if negative) dt
WeeksFrom(dt, weeks) == DateOf(Ordinal(dt) + 7 * weeks)

\* week i of the current series and the week 52 weeks before it
CurrentDates == [i \in 1..(MaxWindow + 1) |-> WeeksFrom(StartDate, i - 1)]
PriorDates == [i \in 1..(MaxWindow + 1) |-> WeeksFrom(StartDate, i - 1 - 52)]

SalesRow(asin, store, units, returns, revenue, week_start) ==
    [ASIN |-> asin, StoreCode |-> store, Units |-> units, Returns |-> returns,
     Revenue |-> revenue, WeekStart |-> week_start]

ReturnsOf(pattern, i, n) ==
    IF pattern = "flat" THEN 10
    ELSE IF pattern = "rising" /\ i = n THEN 10
    ELSE 0

\* The history of one product in one store, oldest row first: a row of a year
\* before for each <<week, units>> of `prior` (a week may occur twice), then n
\* weekly rows with the given units and returns.
Series(asin, store, n, units, pattern, prior) ==
    [k \in 1..Len(prior) |->
        SalesRow(asin, store, prior[k][2], 0, 3 * prior[k][2], PriorDates[prior[k][1]])]
    \o
    [i \in 1..n |->
        SalesRow(asin, store, units[i], ReturnsOf(pattern, i, n), 2 * units[i],
                 CurrentDates[i])]

EveryWeek(n, units) == [i \in 1..n |-> <<i, units>>]

\* The rows of a year before that a series of n weeks may come with.
PriorPlans(n) ==
    LET full == EveryWeek(n, 100)
    IN  { <<>>,
          full,
          EveryWeek(n, 0),
          [full EXCEPT ![n] = <<n, 0>>],
          SubSeq(full, 1, n - 1),
          SubSeq(full, 2, n),
          SubSeq(full, 1, IF n < 3 THEN n ELSE 3),
          << <<n, 100>> >>,
          << <<n, 0>> >>,
          full \o << <<n, 0>> >>,
          SubSeq(full, 1, n - 1) \o << <<n, 0>>, <<n, 100>> >> }

Idle == [units |-> <<>>, min_weeks |-> 0, done |-> FALSE, result |-> FALSE]

NotCalled == [done |-> FALSE, rows |-> <<>>, raised |-> FALSE, alerts |-> <<>>]

InitLocals ==
    /\ grouped_data = <<>>
    /\ gi = 0
    /\ last_n_weeks = <<>>
    /\ previous_year_weeks = <<>>
    /\ metrics = NoMetrics
    /\ alert_reasons = <<>>
    /\ alert_severity = "INFO"
    /\ wow_change = <<>>
    /\ yoy_same_week_change = <<>>
    /\ same_week_prev_year = <<>>
    /\ alerts = <<>>
    /\ error = ""

\* One product in one store, every window size up to MaxWindow.
Init ==
    /\ window_weeks \in 1..MaxWindow
    /\ \E units \in [1..window_weeks -> UnitValues], pattern \in ReturnPatterns,
          prior \in PriorPlans(window_weeks) :
          rows = Series(<<"A">>, <<"S">>, window_weeks, units, pattern, prior)
    /\ pc = "group"
    /\ call = Idle
    /\ first_call = NotCalled
    /\ InitLocals

Next == Analyze

Spec == Init /\ [][Next]_vars

-----------------------------------------------------------------------------
(* A batch of several products *)

MaxGroups == 2

BatchWindows == {1, 2, windowWeeks}
Asins == {<<"A">>, <<"B">>, <<"A", "|", "B">>}
Kinds == {"short", "quiet", "falling", "returns", "critical", "collapse", "growth", "dip"}

Flat(n, units) == [i \in 1..n |-> units]

\* The history of one product, by kind, for a window of n weeks:
\*   short     one week less than the window
\*   quiet     steady sales, a window in which no rule fires
\*   falling   a drop after the first week, no rows of a year before
\*   returns   steady sales with returns of 10%, no rows of a year before
\*   critical, collapse   sales far below those of a year before
\*   growth, dip          returns of 10% and more, sales above (a little below)
\*                        those of a year before
KindSeries(asin, kind, n) ==
    LET store == <<"S">>
        before(units) == Append(EveryWeek(n, units), <<n, 0>>)
    IN  CASE kind = "short" -> Series(asin, store, n - 1, Flat(n - 1, 100), "none", <<>>)
          [] kind = "quiet" -> Series(asin, store, n, Flat(n, 40), "none", <<>>)
          [] kind = "falling" ->
                 Series(asin, store, n, [i \in 1..n |-> IF i = 1 THEN 100 ELSE 40],
                        "none", <<>>)
          [] kind = "returns" -> Series(asin, store, n, Flat(n, 100), "flat", <<>>)
          [] kind = "critical" -> Series(asin, store, n, Flat(n, 40), "none", before(100))
          [] kind = "collapse" -> Series(asin, store, n, Flat(n, 0), "none", before(100))
          [] kind = "growth" -> Series(asin, store, n, Flat(n, 100), "flat", before(40))
          [] kind = "dip" -> Series(asin, store, n, Flat(n, 90), "flat", before(100))

RECURSIVE Concat(_)
Concat(ss) == IF ss = <<>> THEN <<>> ELSE Head(ss) \o Concat(Tail(ss))

\* Up to MaxGroups histories one after the other, under the default window and
\* under windows of one and two weeks.
InitBatch ==
    /\ window_weeks \in BatchWindows
    /\ \E n \in 1..MaxGroups :
          \E slots \in [1..n -> Asins \X Kinds] :
              rows = Concat([i \in 1..n |->
                                KindSeries(slots[i][1], slots[i][2], window_weeks)])
    /\ pc = "group"
    /\ call = Idle
    /\ first_call = NotCalled
    /\ InitLocals

SpecBatch == InitBatch /\ [][Next]_vars

-----------------------------------------------------------------------------
(* Two calls, the second on some of the groups of the first batch *)

\* the keys of the rows, each once
KeysOf(rs) == {GroupKey(rs[i]) : i \in 1..Len(rs)}

\* A second request: when the call has ended, by line 389 or by an exception,
\* analyze_sales_trends is called again with the rows of some of the groups, in
\* the order they had.  Every local of the function is created anew by the call
\* (lines 184-192); THRESHOLDS is not written by it.
CallAgain ==
    /\ pc \in {"returned", "raised"}
    /\ ~first_call.done
    /\ first_call' = [done |-> TRUE, rows |-> rows, raised |-> pc = "raised",
                      alerts |-> IF pc = "returned" THEN alerts ELSE <<>>]
    /\ \E keys \in (SUBSET KeysOf(rows)) \ {{}} :
           rows' = SelectSeq(rows, LAMBDA row : GroupKey(row) \in keys)
    /\ pc' = "group"
    /\ grouped_data' = <<>>
    /\ gi' = 0
    /\ last_n_weeks' = <<>>
    /\ previous_year_weeks' = <<>>
    /\ metrics' = NoMetrics
    /\ alert_reasons' = <<>>
    /\ alert_severity' = "INFO"
    /\ wow_change' = <<>>
    /\ yoy_same_week_change' = <<>>
    /\ same_week_prev_year' = <<>>
    /\ alerts' = <<>>
    /\ error' = ""
    /\ UNCHANGED <<window_weeks, call>>

NextPair ==
    \/ Analyze
    \/ CallAgain

SpecPair == InitBatch /\ [][NextPair]_vars

-----------------------------------------------------------------------------
(* The scenario of four falling weeks, under the default thresholds *)

ScenarioStarts == {<<2024, 9, 30>>, <<2024, 12, 16>>, <<2021, 1, 4>>}

InitScenario ==
    /\ window_weeks = windowWeeks
    /\ \E start \in ScenarioStarts, asin \in {<<"A">>, <<"B">>} :
          \E order \in {p \in [1..4 -> 1..4] : \A i, j \in 1..4 : p[i] = p[j] => i = j} :
              rows = [i \in 1..4 |->
                         SalesRow(asin, <<"S">>, <<100, 90, 80, 70>>[order[i]], 0,
                                  2 * <<100, 90, 80, 70>>[order[i]],
                                  WeeksFrom(start, order[i] - 1))]
    /\ pc = "group"
    /\ call = Idle
    /\ first_call = NotCalled
    /\ InitLocals

SpecScenario == InitScenario /\ [][Next]_vars

-----------------------------------------------------------------------------
(* Windows at the turn of a year *)

YearStarts == {<<2024, 9, 30>>, <<2024, 12, 9>>, <<2024, 12, 30>>, <<2025, 12, 22>>,
               <<2021, 1, 4>>}

\* how many weeks before the window the older rows of the group lie
WeeksBack == {52, 53, 104}

YearWindows == {2, windowWeeks}

\* One product: for each choice of WeeksBack a row that many weeks before each
\* week of the window, then the rows of the window; a row with a date that does
\* not parse may come last.
InitYear ==
    /\ window_weeks \in YearWindows
    /\ \E start \in YearStarts, backs \in SUBSET WeeksBack, units \in {40, 100},
          garbage \in BOOLEAN :
          rows = Concat([b \in 1..3 |->
                            LET back == <<104, 53, 52>>[b]
                            IN  IF back \in backs
                                THEN [i \in 1..window_weeks |->
                                         SalesRow(<<"A">>, <<"S">>, 100, 0, 300,
                                                  WeeksFrom(start, i - 1 - back))]
                                ELSE <<>>])
                 \o [i \in 1..window_weeks |->
                        SalesRow(<<"A">>, <<"S">>, units, 0, 2 * units,
                                 WeeksFrom(start, i - 1))]
                 \o (IF garbage THEN <<SalesRow(<<"A">>, <<"S">>, 100, 0, 200, <<>>)>>
                     ELSE <<>>)
    /\ pc = "group"
    /\ call = Idle
    /\ first_call = NotCalled
    /\ InitLocals

SpecYear == InitYear /\ [][Next]_vars

-----------------------------------------------------------------------------
(* A call of detect_consecutive_weeks_down *)

MaxWeeks == 5
MaxMinWeeks == 4
DownValues == 1..MaxMinWeeks

UnitsOnly(units) == SalesRow(<<"A">>, <<"S">>, units, 0, 0, <<>>)

InitDown ==
    /\ \E n \in 0..MaxWeeks, min_weeks \in 1..MaxMinWeeks :
          \E units \in [1..n -> DownValues] :
              call = [units |-> units, min_weeks |-> min_weeks, done |-> FALSE,
                      result |-> FALSE]
    /\ rows = <<>>
    /\ window_weeks = windowWeeks
    /\ first_call = NotCalled
    /\ pc = "call"
    /\ InitLocals

CallDown ==
    /\ pc = "call"
    /\ call' = [call EXCEPT
                   !.done = TRUE,
                   !.result = detect_consecutive_weeks_down(
                                  [i \in 1..Len(call.units) |-> UnitsOnly(call.units[i])],
                                  call.min_weeks)]
    /\ pc' = "returned"
    /\ UNCHANGED <<rows, window_weeks, first_call, grouped_data, gi, Locals, alerts,
                   error>>

SpecDown == InitDown /\ [][CallDown]_vars

-----------------------------------------------------------------------------
(* Properties *)

Range(s) == {s[i] : i \in 1..Len(s)}

SeverityLevel(severity) ==
    IF severity = "INFO" THEN 0 ELSE IF severity = "WARNING" THEN 1 ELSE 2

RulePcs == {"rule1", "rule2", "rule3", "rule4", "rule5", "rule6", "rule7"}

AfterRule2 == {"rule3", "rule4", "rule5", "rule6", "rule7", "emit"}

\* the loop body has run to line 322 for the group whose locals the state holds
Evaluated == pc \in {"emit", "loop", "returned"} /\ last_n_weeks # <<>>

AlertKey(alert) == alert.ASIN \o <<"|">> \o alert.StoreCode

\* the place in the input of the first row of the group
FirstAppearance(key) ==
    CHOOSE i \in 1..Len(rows) :
        GroupKey(rows[i]) = key /\ \A j \in 1..(i - 1) : GroupKey(rows[j]) # key

\* a step of the rules of one group does not lower the severity
SeverityKept ==
    pc \in RulePcs => SeverityLevel(alert_severity') >= SeverityLevel(alert_severity)

\* C1: while the rules of one group are evaluated, the severity starts at INFO and
\* never goes down a level (INFO < WARNING < CRITICAL); once rule 2 has fired the
\* severity is CRITICAL and stays so through rules 3 to 7, and into the alert.
C1_SeverityNeverDowngrades ==
    /\ [](pc = "rule1" => alert_severity = "INFO")
    /\ [][SeverityKept]_vars
    /\ []((pc \in AfterRule2 /\ 2 \in Range(alert_reasons)) => alert_severity = "CRITICAL")
    /\ [](\A i \in 1..Len(alerts) :
             2 \in Range(alerts[i].AlertReasons) => alerts[i].Severity = "CRITICAL")

\* rule 2 fired between WARNING rules: rule 1 before it, one of rules 3 to 7 after
C1_Witness ==
    /\ pc = "emit"
    /\ {1, 2} \subseteq Range(alert_reasons)
    /\ Range(alert_reasons) \cap {3, 4, 5, 6, 7} # {}
    /\ alert_severity = "CRITICAL"

\* a rule's condition holds for the window of the group: its rows sorted by date,
\* the window not shorter than window_weeks
GroupFires(group) ==
    LET data_list == SortedByDate(group.data_list)
        weeks == get_last_n_weeks(data_list, window_weeks)
        prev_weeks == get_same_weeks_previous_year(data_list, weeks)
        mt == Metrics(weeks, prev_weeks, window_weeks)
    IN  /\ Len(weeks) >= window_weeks
        /\ \/ Rule1Fires(mt)
           \/ Rule2Fires(mt)
           \/ Rule3Fires(weeks)
           \/ Rule4Fires(mt)
           \/ Rule5Fires(mt)
           \/ Len(weeks) >= 2 /\ Rule6Fires(weeks, mt)
           \/ Rule7Fires(weeks, SameWeekPrevYear(weeks, prev_weeks), mt)

\* what the caller receives: the ranked list, or nothing when the call raised
Returned == IF pc = "returned" THEN alerts ELSE <<>>

\* C2: when the call ends, each group for which a rule fires has exactly one alert
\* in what the caller receives and each other group has none; every alert has a
\* reason and the severity WARNING or CRITICAL.
C2_OneAlertPerFiringGroup ==
    pc \in {"returned", "raised"} =>
        /\ \A k \in 1..Len(grouped_data) :
               Cardinality({i \in 1..Len(Returned) :
                                AlertKey(Returned[i]) = grouped_data[k].key})
                   = IF GroupFires(grouped_data[k]) THEN 1 ELSE 0
        /\ \A i \in 1..Len(Returned) :
               /\ Returned[i].AlertReasons # <<>>
               /\ Returned[i].Severity \in {"WARNING", "CRITICAL"}

\* the step of the loop at a group with fewer rows than the window
ShortGroupStep ==
    (/\ pc = "loop"
     /\ gi <= Len(grouped_data)
     /\ Len(grouped_data[gi].data_list) < window_weeks)
    => (pc' = "loop" /\ gi' = gi + 1 /\ alerts' = alerts /\ error' = "")

\* C3: the loop passes over a group with fewer rows than the window: no alert, no
\* error, and it goes on to the next group.
C3_ShortGroupSkipped == [][ShortGroupStep]_vars

\* C4: analyze_sales_trends never ends by raising.
C4_NoFatalError == pc # "raised"

\* C5: in the returned list CRITICAL alerts precede WARNING ones; within a severity
\* the YoY units change ascends; alerts equal in both are in the order in which
\* their groups first appear in the input.
C5_RankedAndStable ==
    pc = "returned" =>
        \A i, j \in 1..Len(alerts) :
            i < j =>
                LET a == alerts[i]
                    b == alerts[j]
                    ra == IF a.Severity = "CRITICAL" THEN 0 ELSE 1
                    rb == IF b.Severity = "CRITICAL" THEN 0 ELSE 1
                    ya == a.YoY_Comparison.UnitsChange
                    yb == b.YoY_Comparison.UnitsChange
                IN  \/ ra < rb
                    \/ ra = rb /\ ya < yb
                    \/ ra = rb /\ ya = yb
                       /\ FirstAppearance(AlertKey(a)) < FirstAppearance(AlertKey(b))

\* a CRITICAL alert returned before a WARNING one whose group came first in the input
C5_Witness ==
    /\ pc = "returned"
    /\ Len(alerts) = 2
    /\ alerts[1].Severity = "CRITICAL"
    /\ alerts[2].Severity = "WARNING"
    /\ FirstAppearance(AlertKey(alerts[1])) > FirstAppearance(AlertKey(alerts[2]))

\* units[i..i+k-1] is strictly decreasing for some i: a run of k weeks
HasRunDown(units, k) ==
    \E i \in 1..Len(units) :
        /\ i + k - 1 <= Len(units)
        /\ \A j \in i..(i + k - 2) : units[j + 1] < units[j]

\* C6 as stated: for every min_weeks >= 1 the result is true iff the units hold a
\* strictly decreasing run of at least min_weeks weeks.
C6_RunOfMinWeeks ==
    call.done => (call.result <=> HasRunDown(call.units, call.min_weeks))

\* C6 amended: the result is true iff the units hold a strictly decreasing run of
\* at least max(min_weeks, 2) weeks: a run needs one falling step at least.
C6_RunOfAtLeastTwoWeeks ==
    call.done => (call.result <=> HasRunDown(call.units, MaxOf(call.min_weeks, 2)))

\* a run of three weeks found after a step that is not a fall
C6_Witness ==
    /\ call.done
    /\ call.result
    /\ call.min_weeks = 3
    /\ Len(call.units) = 5
    /\ call.units[2] >= call.units[1]
    /\ call.units[3] >= call.units[2]

\* C7 as stated: the scenario returns one alert whose reasons are those of rules 1
\* and 3, of severity WARNING, with the YoY data not available.
C7_RulesOneAndThree ==
    pc = "returned" =>
        /\ Len(alerts) = 1
        /\ alerts[1].AlertReasons = <<1, 3>>
        /\ alerts[1].Severity = "WARNING"
        /\ alerts[1].YoY_Comparison.DataAvailable = FALSE

\* C7 amended: the reasons are those of rules 1, 3 and 6: the last week is 12.5%
\* below the week before it.
C7_RulesOneThreeAndSix ==
    pc = "returned" =>
        /\ Len(alerts) = 1
        /\ alerts[1].AlertReasons = <<1, 3, 6>>
        /\ alerts[1].Severity = "WARNING"
        /\ alerts[1].YoY_Comparison.DataAvailable = FALSE
        /\ alerts[1].Comparisons.WoWUnitsChange = <<-125>>

\* the scenario analysed from rows that did not arrive in date order
C7_Witness ==
    /\ pc = "returned"
    /\ Len(alerts) = 1
    /\ Column(rows, "Units") # <<100, 90, 80, 70>>
    /\ Column(alerts[1].WeeklyDetail, "Units") = <<100, 90, 80, 70>>

\* a window of a year before with rows enough for the YoY data to be available
EnoughPrior ==
    [i \in 1..MaxOf(3, window_weeks) |-> SalesRow(<<"A">>, <<"S">>, 100, 0, 300, <<>>)]

\* the rules among 1, 3, 4, 5 and 6 that fire for the window, given the rows of a
\* year before
NonYoYRules(weeks, prev_weeks) ==
    LET mt == Metrics(weeks, prev_weeks, window_weeks)
    IN  {r \in {1} : Rule1Fires(mt)} \cup {r \in {3} : Rule3Fires(weeks)}
        \cup {r \in {4} : Rule4Fires(mt)} \cup {r \in {5} : Rule5Fires(mt)}
        \cup {r \in {6} : Rule6Fires(weeks, mt)}

\* C8: the YoY data is available exactly when the window of a year before has at
\* least 3 rows and at least windowWeeks - 1 rows.  When it is not, rule 2 does not
\* fire, the severity is not CRITICAL, the alert reports 0, 0 and false, and rules
\* 1, 3, 4, 5 and 6 fire as they do for the same window with the data available.
C8_YoYAvailability ==
    LET enough == /\ Len(previous_year_weeks) >= 3
                  /\ Len(previous_year_weeks) >= window_weeks - 1
    IN  /\ (pc \in RulePcs \/ Evaluated) =>
               /\ metrics.yoy_data_available <=> enough
               /\ (~enough /\ pc # "rule1") =>
                      /\ 2 \notin Range(alert_reasons)
                      /\ alert_severity # "CRITICAL"
        /\ Evaluated =>
               /\ \A i \in 1..Len(alerts) :
                      alerts[i].YoY_Comparison.DataAvailable <=> enough
               /\ ~enough =>
                      /\ \A i \in 1..Len(alerts) :
                             /\ alerts[i].YoY_Comparison.UnitsChange = 0
                             /\ alerts[i].YoY_Comparison.RevenueChange = 0
                             /\ alerts[i].Severity # "CRITICAL"
                      /\ Range(alert_reasons) \cap {1, 3, 4, 5, 6}
                             = NonYoYRules(last_n_weeks, EnoughPrior)

\* three rows of a year before under a window of five weeks: not available, and
\* an alert is raised by the other rules
C8_Witness ==
    /\ pc = "returned"
    /\ window_weeks = 5
    /\ Len(previous_year_weeks) = 3
    /\ Len(alerts) = 1
    /\ alerts[1].YoY_Comparison.DataAvailable = FALSE
    /\ Range(alerts[1].AlertReasons) \cap {1, 3, 4, 5, 6} # {}

\* C9: the alert's comparison with the same week of a year before is a number
\* exactly when the first row of that ISO week in the window of a year before has
\* units > 0; otherwise it is None, the data is reported not available and rule 7
\* has not fired.
C9_SameWeekComparison ==
    (Evaluated /\ alerts # <<>>) =>
        LET week == get_week_number(last_n_weeks[Len(last_n_weeks)])
            hits == SelectSeq(previous_year_weeks,
                              LAMBDA row : get_week_number(row) = week)
            usable == hits # <<>> /\ hits[1].Units > 0
            shown == alerts[1].Comparisons
        IN  /\ shown.YoYSameWeekUnitsChange # <<>> <=> usable
            /\ ~usable => /\ shown.YoYSameWeekDataAvailable = FALSE
                          /\ 7 \notin Range(alerts[1].AlertReasons)

\* C10: no ratio is taken over zero.  The YoY change is 0 when the units (the
\* revenue) of a year before sum to 0, the return rate is 0 when no unit was sold,
\* a normalized slope is 0 when the mean is not positive, and the WoW change is
\* None, with rule 6 silent, when the week before the last sold no unit.
C10_ZeroDenominators ==
    (pc \in RulePcs \/ Evaluated) =>
        LET units == Column(last_n_weeks, "Units")
            available == metrics.yoy_data_available
        IN  /\ error # "ZeroDivisionError"
            /\ \A f \in {"avg_units", "normalized_units_slope", "normalized_returns_slope",
                         "yoy_units_change", "yoy_revenue_change", "return_rate"} :
                   metrics[f][2] > 0
            /\ (available /\ SumSeq(Column(previous_year_weeks, "Units")) = 0)
                   => metrics.yoy_units_change = Zero
            /\ (available /\ SumSeq(Column(previous_year_weeks, "Revenue")) = 0)
                   => metrics.yoy_revenue_change = Zero
            /\ SumSeq(units) = 0 => metrics.return_rate = Zero
            /\ SumSeq(units) <= 0 => metrics.normalized_units_slope = Zero
            /\ SumSeq(Column(last_n_weeks, "Returns")) <= 0
                   => metrics.normalized_returns_slope = Zero
            /\ (Evaluated /\ units[Len(units) - 1] = 0)
                   => /\ wow_change = <<>>
                      /\ 6 \notin Range(alert_reasons)
                      /\ \A i \in 1..Len(alerts) :
                             alerts[i].Comparisons.WoWUnitsChange = <<>>

\* an alert for a window that sold nothing, against a year before that sold nothing
C10_Witness ==
    /\ pc = "returned"
    /\ Len(alerts) = 1
    /\ alerts[1].Current_4W.TotalUnits = 0
    /\ alerts[1].Current_4W.ReturnRate = 0
    /\ alerts[1].Comparisons.WoWUnitsChange = <<>>
    /\ metrics.yoy_data_available
    /\ SumSeq(Column(previous_year_weeks, "Units")) = 0
    /\ alerts[1].YoY_Comparison.UnitsChange = 0

\* the alerts of the group with the given key in a list of alerts
AlertsOf(list, key) == SelectSeq(list, LAMBDA alert : AlertKey(alert) = key)

\* C11: two calls whose batches hold the same rows, in the same order, for a group
\* give the caller the same for that group: no alert in both, or the same alert in
\* both, whatever the other groups of the two batches are.
C11_GroupsIndependent ==
    (first_call.done /\ pc \in {"returned", "raised"}) =>
        \A key \in KeysOf(rows) :
            AlertsOf(Returned, key) = AlertsOf(first_call.alerts, key)

\* the ISO week-numbering year of a row
IsoYear(row) == IsoCalendar(get_week_date(row))[1]

\* C12: the window of a year before is the rows of the group, in date order, whose
\* ISO year is that of the first row of the window less one and whose ISO week is
\* that of a row of the window; no row of the window is among them.
C12_PriorYearWindowByIsoYear ==
    pc \in RulePcs =>
        LET week_numbers == {get_week_number(last_n_weeks[i]) : i \in 1..Len(last_n_weeks)}
            target == IsoYear(last_n_weeks[1]) - 1
        IN  /\ previous_year_weeks =
                   SelectSeq(SortedByDate(rows), LAMBDA row :
                       IsoYear(row) = target /\ get_week_number(row) \in week_numbers)
            /\ Range(previous_year_weeks) \cap Range(last_n_weeks) = {}

\* the condition of rule r on the window and the window of a year before; rule 6
\* compares the last two weeks of the window
RuleHolds(r, weeks, prev_weeks) ==
    LET mt == Metrics(weeks, prev_weeks, window_weeks)
    IN  CASE r = 1 -> Rule1Fires(mt)
          [] r = 2 -> Rule2Fires(mt)
          [] r = 3 -> Rule3Fires(weeks)
          [] r = 4 -> Rule4Fires(mt)
          [] r = 5 -> Rule5Fires(mt)
          [] r = 6 -> Len(weeks) >= 2 /\ Rule6Fires(weeks, mt)
          [] r = 7 -> Rule7Fires(weeks, SameWeekPrevYear(weeks, prev_weeks), mt)

RuleAt == [rule1 |-> 1, rule2 |-> 2, rule3 |-> 3, rule4 |-> 4, rule5 |-> 5, rule6 |-> 6,
           rule7 |-> 7]

AfterRule == <<"rule2", "rule3", "rule4", "rule5", "rule6", "rule7", "emit">>

\* the step of a rule: it appends one reason if its condition holds, none if not,
\* and the next rule is evaluated (after rule 7, line 325)
RuleStep ==
    pc \in RulePcs =>
        /\ pc' = AfterRule[RuleAt[pc]]
        /\ alert_reasons' =
               IF RuleHolds(RuleAt[pc], last_n_weeks, previous_year_weeks)
               THEN Append(alert_reasons, RuleAt[pc])
               ELSE alert_reasons

\* C13: for a group with a full window every rule is evaluated, whatever the others
\* did, and appends one reason exactly when its condition holds: after rule 7 the
\* reasons are the rules whose condition holds, in the order 1 to 7.
C13_NoShortCircuit ==
    /\ [][RuleStep]_vars
    /\ [](pc = "emit" =>
              alert_reasons = SelectSeq(<<1, 2, 3, 4, 5, 6, 7>>, LAMBDA r :
                                  RuleHolds(r, last_n_weeks, previous_year_weeks)))

====
